---- MODULE Spec2Model ----
(***************************************************************************)
(* A model of pdflyx: the retrieval-augmented response pipeline of         *)
(* llm_service.py (LLMService), the error-wrapping decorator of            *)
(* decorators.py and the Telegram handlers of handlers.py that call them.  *)
(*                                                                         *)
(* Python values are tagged records ([t |-> "tuple", v |-> <<...>>]) so    *)
(* that None, booleans, tuples, lists, sets and strings can be told apart  *)
(* the way the interpreter tells them apart (truthiness, tuple length).    *)
(* A text is the sequence of its lines.                                    *)
(***************************************************************************)
EXTENDS Integers, Sequences, FiniteSets, TLC

VARIABLES
    folder_files,   \* filesystem: the files of each knowledge-base folder
    disk,           \* filesystem: <folder>/vector_store of each folder
    vector_store,   \* LLMService.vector_store of each user's service
    user_data,      \* context.user_data of each user (the session)
    users_db,       \* the users table of the database
    last            \* the last operation: its inputs, result and effects

vars == <<folder_files, disk, vector_store, user_data, users_db, last>>

(***************************************************************************)
(* Bounds of the model.                                                    *)
(***************************************************************************)
MaxRetrieved == 2      \* candidates a search returns (at most DOCS_IN_RETRIEVER)
MaxPages == 2          \* pages of a PDF file
MaxTextLen == 4        \* tokens of a suggestion reply of the model
MaxN == 2              \* the n of generate_suggestions
MaxRelevant == 3       \* relevant chunks of one answer (at most DOCS_IN_RETRIEVER)
MaxTurns == 4          \* text messages of one user

(***************************************************************************)
(* Program constants (similarities in hundredths).                         *)
(***************************************************************************)
CHAT_HISTORY_LEVEL == 5
DOCS_IN_RETRIEVER == 4
RELEVANCE_THRESHOLD_DOCS == 70
RELEVANCE_THRESHOLD_PROMPT == 80

Users == {"u1", "u2"}
Folders == {"kbA", "kbB", "kbC"}
Paths == Folders \cup {"missing"}
FileNames == {"a.pdf", "d.pdf", "b.docx", "c.xlsx", "n.txt"}
Similarities == {60, 70, 80}

(***************************************************************************)
(* Python values.                                                          *)
(***************************************************************************)
None == [t |-> "None"]
Bool(b) == [t |-> "bool", v |-> b]
Str(lines) == [t |-> "str", v |-> lines]
Tuple(q) == [t |-> "tuple", v |-> q]
List(q) == [t |-> "list", v |-> q]
SetOf(s) == [t |-> "set", v |-> s]
\* a list of filenames in directory order (the order is not modelled)
FileList(s) == [t |-> "filelist", v |-> s]

\* bool(x) of the interpreter
Truthy(x) ==
    CASE x.t = "None" -> FALSE
      [] x.t = "bool" -> x.v
      [] x.t = "tuple" -> Len(x.v) > 0
      [] x.t = "list" -> Len(x.v) > 0
      [] x.t = "set" -> x.v # {}
      [] x.t = "filelist" -> x.v # {}
      [] x.t = "str" -> x.v # <<"">>
      [] OTHER -> TRUE

\* the outcome of running a function body: a returned value or an exception
Return(val) == [raised |-> FALSE, value |-> val]
Raise == [raised |-> TRUE, value |-> None]

RangeOf(q) == {q[i] : i \in 1..Len(q)}

Max(S, default) == IF S = {} THEN default ELSE CHOOSE m \in S : \A y \in S : y <= m

RECURSIVE SortedSeq(_)
\* sorted(pages) of a set of integers
SortedSeq(S) ==
    IF S = {} THEN <<>>
    ELSE LET m == CHOOSE y \in S : \A z \in S : y <= z
         IN <<m>> \o SortedSeq(S \ {m})

(***************************************************************************)
(* decorators.log_errors: an exception of the wrapped function becomes     *)
(* default_return when that is not None, and is re-raised otherwise.       *)
(***************************************************************************)
log_errors(default_return, outcome) ==
    IF outcome.raised
    THEN IF default_return # None
         THEN [outcome EXCEPT !.raised = FALSE, !.value = default_return]
         ELSE outcome
    ELSE outcome

(***************************************************************************)
(* The filesystem.                                                         *)
(***************************************************************************)
Absent == [t |-> "absent"]          \* no vector_store directory
Broken == [t |-> "broken"]          \* a directory without a loadable index
Index(f, files) == [t |-> "index", folder |-> f, files |-> files]

Ext(filename) ==
    CASE filename \in {"a.pdf", "d.pdf"} -> ".pdf"
      [] filename = "b.docx" -> ".docx"
      [] filename = "c.xlsx" -> ".xlsx"
      [] OTHER -> ".txt"

\* the chunks of an index: one per page of each file it was built from
Chunk(file, page) == [source |-> file, page |-> page]
ChunksOf(store) ==
    IF store.t = "index"
    THEN {Chunk(file, p) : file \in store.files, p \in 0..(MaxPages - 1)}
    ELSE {}

\* what can fail during one indexing call: stat of the directory, FAISS.load_local,
\* os.listdir, FAISS.from_documents (the embedding provider), mkdir and save_local
IndexFaults == {"stat", "load", "listdir", "build", "mkdir", "save_local"}

(***************************************************************************)
(* LLMService.load_vector_store (without its decorator): adopts the        *)
(* persisted index of the folder when the directory exists and loads.      *)
(***************************************************************************)
\* a load that adopts the persisted index only while the folder holds its files
load_vector_store_body_if_current(vs, folder_path, faults) ==
    IF "stat" \in faults
    THEN Raise @@ [vs |-> vs]
    ELSE IF /\ folder_path \in Folders
            /\ disk[folder_path] # Absent
            /\ disk[folder_path] # Broken
            /\ "load" \notin faults
            /\ disk[folder_path].files \subseteq folder_files[folder_path]
         THEN Return(Bool(TRUE)) @@ [vs |-> disk[folder_path]]
         ELSE Return(Bool(FALSE)) @@ [vs |-> vs]

load_vector_store_body(vs, folder_path, faults) ==
    IF "stat" \in faults
    THEN Raise @@ [vs |-> vs]
    ELSE IF folder_path \in Folders /\ disk[folder_path] # Absent
         THEN IF disk[folder_path] = Broken \/ "load" \in faults
              THEN Return(Bool(FALSE)) @@ [vs |-> vs]
              ELSE Return(Bool(TRUE)) @@ [vs |-> disk[folder_path]]
         ELSE Return(Bool(FALSE)) @@ [vs |-> vs]

IndexingErrorDefault ==
    Tuple(<<Bool(FALSE), "An error occurred while indexing documents.">>)

load_vector_store(vs, folder_path, faults) ==
    log_errors(IndexingErrorDefault, load_vector_store_body(vs, folder_path, faults))

(***************************************************************************)
(* LLMService.save_vector_store: mkdir, then save_local when the service   *)
(* holds an index; every exception is re-raised.                           *)
(***************************************************************************)
\* a save that creates the directory and forgets save_local
save_vector_store_without_save_local(vs, folder_path, faults) ==
    IF "mkdir" \in faults
    THEN [raised |-> TRUE, dir |-> disk[folder_path]]
    ELSE [raised |-> FALSE,
          dir |-> IF disk[folder_path] = Absent THEN Broken ELSE disk[folder_path]]

save_vector_store(vs, folder_path, faults) ==
    IF "mkdir" \in faults
    THEN [raised |-> TRUE, dir |-> disk[folder_path]]
    ELSE IF vs # None
         THEN IF "save_local" \in faults
              THEN [raised |-> TRUE, dir |-> Broken]
              ELSE [raised |-> FALSE, dir |-> vs]
         ELSE [raised |-> FALSE,
               dir |-> IF disk[folder_path] = Absent THEN Broken ELSE disk[folder_path]]

(***************************************************************************)
(* The Word and Excel loaders that load_and_index_documents calls are not  *)
(* methods of LLMService: the attribute lookup raises AttributeError.      *)
(***************************************************************************)
load_word_file(file_path) == Raise
load_excel_file(file_path) == Raise

\* PyMuPDFLoader(file_path).load()
load_pdf(filename, unreadable) ==
    IF filename \in unreadable THEN Raise ELSE Return(filename)

\* an ingestion loop that takes every file of the folder
LoadedFilesOfAnyType(files, unreadable) == files

\* the files of the folder that the ingestion loop turns into Documents
LoadedFiles(files, unreadable) ==
    {filename \in files :
        CASE Ext(filename) = ".pdf" -> ~load_pdf(filename, unreadable).raised
          [] Ext(filename) = ".docx" -> ~load_word_file(filename).raised
          [] Ext(filename) = ".xlsx" -> ~load_excel_file(filename).raised
          [] OTHER -> FALSE}

ExceptionText == "str(e)"
LoadedMsg == "Vector store loaded from existing files."
NoValidFilesMsg ==
    "No valid files found in the folder. Please provide PDF, Word, or Excel files."
IndexedMsg == "Documents successfully indexed and vector store saved."

\* an index build that keeps what was embedded before the provider failed
from_documents_partial(folder_path, loaded, faults) ==
    IF "build" \in faults
    THEN Return(Index(folder_path, {}))
    ELSE Return(Index(folder_path, loaded))

\* FAISS.from_documents(split_docs, self.embeddings): the index of the loaded
\* files, or the exception of the embedding provider
from_documents(folder_path, loaded, faults) ==
    IF "build" \in faults
    THEN Raise
    ELSE Return(Index(folder_path, loaded))

IndexOutcome(val, vs, dir, loader, embedded) ==
    Return(val) @@ [vs |-> vs, dir |-> dir, loader_invoked |-> loader,
                    embedded |-> embedded]

(***************************************************************************)
(* LLMService.load_and_index_documents, the body inside try/except: load   *)
(* the persisted index, else read the folder, build and save the index.    *)
(* vs is the service's vector_store before the call; the outcome carries   *)
(* the vector_store and the vector_store directory after it.               *)
(***************************************************************************)
load_and_index_documents_body(vs, folder_path, faults, unreadable) ==
    LET lv == load_vector_store(vs, folder_path, faults)
        dir0 == IF folder_path \in Folders THEN disk[folder_path] ELSE Absent
        failed(v, loader, embedded) ==
            IndexOutcome(Tuple(<<Bool(FALSE), ExceptionText>>), v, dir0, loader, embedded)
    IN  IF lv.raised
        THEN failed(lv.vs, FALSE, FALSE)
        ELSE IF Truthy(lv.value)
        THEN IndexOutcome(Tuple(<<Bool(TRUE), LoadedMsg>>), lv.vs, dir0, FALSE, FALSE)
        ELSE IF folder_path \notin Folders \/ "listdir" \in faults
        THEN failed(lv.vs, FALSE, FALSE)
        ELSE
        LET files == folder_files[folder_path]
            loaded == LoadedFiles(files, unreadable)
            loader == \E filename \in files : Ext(filename) = ".pdf"
            found_valid_file == loaded # {}
        IN  IF ~found_valid_file
            THEN IndexOutcome(Tuple(<<Bool(FALSE), NoValidFilesMsg>>),
                              lv.vs, dir0, loader, FALSE)
            ELSE
            LET fd == from_documents(folder_path, loaded, faults)
            IN  IF fd.raised
            THEN failed(lv.vs, loader, TRUE)
            ELSE
            LET built == fd.value
                sv == save_vector_store(built, folder_path, faults)
            IN  IF sv.raised
                THEN IndexOutcome(Tuple(<<Bool(FALSE), ExceptionText>>),
                                  built, sv.dir, loader, TRUE)
                ELSE IndexOutcome(Tuple(<<Bool(TRUE), IndexedMsg>>),
                                  built, sv.dir, loader, TRUE)

load_and_index_documents(vs, folder_path, faults, unreadable) ==
    log_errors(IndexingErrorDefault,
               load_and_index_documents_body(vs, folder_path, faults, unreadable))

(***************************************************************************)
(* LLMService.get_empty_docs: os.listdir is outside the try, so a folder   *)
(* that cannot be listed raises; an unreadable PDF is skipped.             *)
(***************************************************************************)
get_empty_docs(folder_path, faults, unreadable, empty_pages) ==
    IF folder_path \notin Folders \/ "listdir" \in faults
    THEN Raise
    ELSE Return(FileList({filename \in folder_files[folder_path] :
                    /\ Ext(filename) = ".pdf"
                    /\ filename \notin unreadable
                    /\ filename \in empty_pages}))

(***************************************************************************)
(* Texts of the chat model.  A suggestion reply is a sequence of tokens:   *)
(* "NSN" is the phrase 'No suggestions needed' as the prompt spells it,    *)
(* "nsn" the same phrase in lower case, "w" any other word.                *)
(***************************************************************************)
Tokens == {"NSN", "nsn", "w", " ", "\n", ".", "1", "-"}

Lower(tok) == IF tok = "NSN" THEN "nsn" ELSE tok
IsSpace(tok) == tok \in {" ", "\n"}
IsDigit(tok) == tok = "1"

RECURSIVE LStrip(_)
LStrip(q) == IF q # <<>> /\ IsSpace(Head(q)) THEN LStrip(Tail(q)) ELSE q

RECURSIVE RStrip(_)
RStrip(q) ==
    IF q # <<>> /\ IsSpace(q[Len(q)]) THEN RStrip(SubSeq(q, 1, Len(q) - 1)) ELSE q

\* str.strip()
Strip(q) == RStrip(LStrip(q))

\* str.lower()
LowerText(q) == [i \in 1..Len(q) |-> Lower(q[i])]

RECURSIVE Split(_, _)
\* str.split(sep): the pieces between the separators, empty pieces included
Split(q, sep) ==
    IF \E i \in 1..Len(q) : q[i] = sep
    THEN LET i == CHOOSE j \in 1..Len(q) :
                      q[j] = sep /\ \A k \in 1..(j - 1) : q[k] # sep
         IN <<SubSeq(q, 1, i - 1)>> \o Split(SubSeq(q, i + 1, Len(q)), sep)
    ELSE <<q>>

\* line.split('.', 1)[1]
AfterFirstDot(line) ==
    LET i == CHOOSE j \in 1..Len(line) :
                 line[j] = "." /\ \A k \in 1..(j - 1) : line[k] # "."
    IN SubSeq(line, i + 1, Len(line))

\* one line of the reply, stripped and non-empty, without its number or bullet
CleanSuggestion(line) ==
    IF IsDigit(line[1]) /\ (\E i \in 1..Len(line) : line[i] = ".")
    THEN Strip(AfterFirstDot(line))
    ELSE IF line[1] = "-"
         THEN Strip(Tail(line))
         ELSE line

RECURSIVE ParseSuggestions(_)
ParseSuggestions(lines) ==
    IF lines = <<>> THEN <<>>
    ELSE LET line == Strip(Head(lines))
         IN IF line = <<>>
            THEN ParseSuggestions(Tail(lines))
            ELSE <<CleanSuggestion(line)>> \o ParseSuggestions(Tail(lines))

\* suggestions[:n] for n >= 0
Take(q, n) == SubSeq(q, 1, IF n < Len(q) THEN n ELSE Len(q))

NoSuggestionsReply == <<"nsn", ".">>

\* a generator that answers a failed model call with an empty list
generate_suggestions_empty_on_error(predict, n) ==
    IF predict.raised
    THEN List(<<>>)
    ELSE IF LowerText(Strip(predict.value)) = NoSuggestionsReply
    THEN None
    ELSE LET suggestions ==
                 Take(ParseSuggestions(Split(Strip(predict.value), "\n")), n)
         IN IF suggestions = <<>> THEN None ELSE List(suggestions)

(***************************************************************************)
(* LLMService.generate_suggestions: predict is the outcome of llm.predict  *)
(* (the reply, or an exception); the result is a list or None.             *)
(***************************************************************************)
generate_suggestions(predict, n) ==
    IF predict.raised
    THEN None
    ELSE IF LowerText(Strip(predict.value)) = NoSuggestionsReply
    THEN None
    ELSE LET suggestions ==
                 Take(ParseSuggestions(Split(Strip(predict.value), "\n")), n)
         IN IF suggestions = <<>> THEN None ELSE List(suggestions)

(***************************************************************************)
(* helpers.parser_html, line by line: a heading becomes bold, a numbered   *)
(* or bulleted item is normalised, **x** becomes <b>x</b>; any other line  *)
(* of the model is returned stripped, which leaves it as it is.            *)
(***************************************************************************)
ConvertLine(line) ==
    CASE line = "# Title" -> "<b>Title</b>"
      [] line = "**bold** text" -> "<b>bold</b> text"
      [] line = "- item" -> "(bullet) item"
      [] OTHER -> line

parser_html(lines) == [i \in 1..Len(lines) |-> ConvertLine(lines[i])]

\* what chain.invoke can answer
Answers == {<<"The answer.">>, <<"# Title", "**bold** text">>}

NoIndexMsg ==
    <<"Please set the folder path using /folder and ensure documents are loaded.">>
NotFoundMsg ==
    <<"I'm sorry, I could not find relevant information to answer your question.">>
GenerateErrorMsg == <<"An error occurred while generating a response.">>
GenerateErrorDefault == Tuple(<<Str(GenerateErrorMsg), None>>)
ReferencesHeader == <<"", "------------------", "References (/references):">>

(***************************************************************************)
(* LLMService.compute_embeddings_similarity: retrieved[i].sim is the       *)
(* cosine similarity the provider's vectors give for retrieved[i].doc;     *)
(* fail_at is the embedding call that raises (0 the query, i the i-th      *)
(* chunk, -1 none).  Any exception is swallowed and [] returned.           *)
(***************************************************************************)
compute_embeddings_similarity(retrieved, fail_at) ==
    IF fail_at \in 0..Len(retrieved)
    THEN [scores |-> <<>>, embed_calls |-> fail_at + 1]
    ELSE [scores |-> retrieved, embed_calls |-> Len(retrieved) + 1]

\* a gate that compares with the cutoff of the documents instead of its argument
is_prompt_relevant_at_docs_cutoff(relevance_scores, relevance_threshold) ==
    Max({relevance_scores[i].sim : i \in 1..Len(relevance_scores)}, 0)
        >= RELEVANCE_THRESHOLD_DOCS

\* LLMService.is_prompt_relevant_to_documents
is_prompt_relevant_to_documents(relevance_scores, relevance_threshold) ==
    LET max_similarity ==
            Max({relevance_scores[i].sim : i \in 1..Len(relevance_scores)}, 0)
    IN max_similarity >= relevance_threshold

RECURSIVE FirstSeen(_)
\* the keys of the references dict, in insertion order
FirstSeen(names) ==
    IF names = <<>> THEN <<>>
    ELSE LET rest == FirstSeen(SubSeq(names, 1, Len(names) - 1))
             x == names[Len(names)]
         IN IF x \in RangeOf(rest) THEN rest ELSE Append(rest, x)

\* doc.metadata.get("page", "Unknown"); NoPage stands for the string "Unknown"
NoPage == 0 - 1
PageOf(doc) == IF "page" \in DOMAIN doc THEN doc.page ELSE NoPage
PageStr(page) == IF page = NoPage THEN "Unknown" ELSE ToString(page)

RECURSIVE JoinPages(_)
\* ", ".join(str(page) for page in pages_list)
JoinPages(pages) ==
    IF pages = <<>> THEN ""
    ELSE IF Len(pages) = 1 THEN PageStr(pages[1])
    ELSE PageStr(pages[1]) \o ", " \o JoinPages(Tail(pages))

\* reference lines whose pages are listed as they were met, not sorted
ReferenceLinesUnsorted(relevant_docs) ==
    LET names == FirstSeen([i \in 1..Len(relevant_docs) |-> relevant_docs[i].source])
        pages(name) ==
            FirstSeen([i \in 1..Len(SelectSeq(relevant_docs, LAMBDA d : d.source = name))
                          |-> PageOf(SelectSeq(relevant_docs,
                                               LAMBDA d : d.source = name)[i])])
    IN [i \in 1..Len(names) |->
           names[i] \o ", pages: " \o JoinPages(pages(names[i]))]

\* the lines "{doc_name}, pages: {pages_str}" of the reference block
ReferenceLines(relevant_docs) ==
    LET names == FirstSeen([i \in 1..Len(relevant_docs) |-> relevant_docs[i].source])
        pages(name) == {PageOf(relevant_docs[i]) :
                           i \in {j \in 1..Len(relevant_docs) :
                                      relevant_docs[j].source = name}}
    IN [i \in 1..Len(names) |->
           names[i] \o ", pages: " \o JoinPages(SortedSeq(pages(names[i])))]

\* a block that lists only the file of the first relevant chunk
with_references_first_file(answer, relevant_docs) ==
    answer \o ReferencesHeader
           \o SubSeq(ReferenceLines(relevant_docs), 1, 1) \o <<"">>

\* answer_with_references: the answer, the header of the block, one line per
\* file and the empty piece after the last newline
with_references(answer, relevant_docs) ==
    answer \o ReferencesHeader \o ReferenceLines(relevant_docs) \o <<"">>

\* a precondition check that lets every call through
no_index_never(vs) == FALSE

\* the precondition check: not hasattr(self, 'vector_store') or it is None
no_index(vs) == vs = None

\* a filter that keeps every scored candidate
filter_relevant_keeps_all(relevance_scores) ==
    [i \in 1..Len(relevance_scores) |-> relevance_scores[i].doc]

\* [doc for doc, similarity in relevance_scores
\*      if similarity >= RELEVANCE_THRESHOLD_DOCS]
filter_relevant(relevance_scores) ==
    LET relevant == SelectSeq(relevance_scores,
                              LAMBDA p : p.sim >= RELEVANCE_THRESHOLD_DOCS)
    IN [i \in 1..Len(relevant) |-> relevant[i].doc]

GenOutcome(outcome, stages, llm_calls, embed_calls, search_query, scores, relevant, history) ==
    outcome @@ [stages |-> stages, llm_calls |-> llm_calls,
                embed_calls |-> embed_calls, search_query |-> search_query,
                scores |-> scores, relevant_docs |-> relevant,
                llm_history |-> history]

(***************************************************************************)
(* LLMService.generate_response without its decorator.  vs is the active   *)
(* index; env is what the collaborators do during the call: search_fault   *)
(* (similarity_search_with_score raises), retrieved (the candidates and    *)
(* their similarities), embed_fail_at, synth (outcome of chain.invoke) and *)
(* predict (outcome of llm.predict).  stages and llm_calls log the steps   *)
(* the call went through and the chat-model calls it made.                 *)
(***************************************************************************)
generate_response_body(vs, prompt, chat_history, env) ==
    IF no_index(vs)
    THEN GenOutcome(Return(Tuple(<<Str(NoIndexMsg), None, None>>)),
                    <<"START", "DONE">>, <<>>, 0, None, <<>>, <<>>, None)
    ELSE
    LET history == IF chat_history = None THEN List(<<>>) ELSE chat_history
    IN  IF env.search_fault
        THEN GenOutcome(Raise, <<"START", "RETRIEVE">>, <<>>, 1, Str(<<prompt>>),
                        <<>>, <<>>, None)
        ELSE
        LET sim == compute_embeddings_similarity(env.retrieved, env.embed_fail_at)
            relevance_scores == sim.scores
            calls == 1 + sim.embed_calls
            relevant_docs == filter_relevant(relevance_scores)
        IN  IF relevant_docs = <<>>
            THEN GenOutcome(Return(Tuple(<<Str(parser_html(NotFoundMsg)), None, None>>)),
                            <<"START", "RETRIEVE", "SCORE", "NOT_RELEVANT", "DONE">>,
                            <<>>, calls, Str(<<prompt>>), relevance_scores, <<>>, None)
            ELSE IF env.synth.raised
            THEN GenOutcome(Raise,
                            <<"START", "RETRIEVE", "SCORE", "RELEVANT", "SYNTHESIZE">>,
                            <<"synthesize">>, calls, Str(<<prompt>>),
                            relevance_scores, relevant_docs, history)
            ELSE
            LET answer == env.synth.value
                is_relevant == is_prompt_relevant_to_documents(
                                   relevance_scores, RELEVANCE_THRESHOLD_PROMPT)
                answer_with_references == with_references(answer, relevant_docs)
                response == IF is_relevant
                            THEN parser_html(answer_with_references)
                            ELSE parser_html(answer)
                source_files ==
                    IF is_relevant
                    THEN SetOf({relevant_docs[i].source : i \in 1..Len(relevant_docs)})
                    ELSE None
                suggestions == generate_suggestions(env.predict, 3)
            IN  GenOutcome(Return(Tuple(<<Str(response), source_files, suggestions>>)),
                           <<"START", "RETRIEVE", "SCORE", "RELEVANT", "SYNTHESIZE",
                             IF is_relevant THEN "WITH_REFERENCES" ELSE "PLAIN",
                             "SUGGEST", "DONE">>,
                           <<"synthesize", "suggest">>, calls, Str(<<prompt>>),
                           relevance_scores, relevant_docs, history)

generate_response(vs, prompt, chat_history, env) ==
    log_errors(GenerateErrorDefault,
               generate_response_body(vs, prompt, chat_history, env))

(***************************************************************************)
(* Inputs of the operations.                                               *)
(***************************************************************************)
Prompts == {"what about the second one?"}
Histories == {None, List(<<>>), List(<<"HumanMessage: q0", "AIMessage: a0">>)}

\* what llm.predict can reply to the suggestion prompt
SuggestReplies ==
    {<<"NSN", ".">>, <<"NSN">>, <<>>,
     <<"1", ".", " ", "w", "\n", "-", " ", "w">>,
     <<"w", "\n", "w", "\n", "w", "\n", "w">>}

PredictOutcomes == {Raise} \cup {Return(reply) : reply \in SuggestReplies}

RetrieveLimit == IF MaxRetrieved < DOCS_IN_RETRIEVER THEN MaxRetrieved ELSE DOCS_IN_RETRIEVER

\* what a search of the index can return: distinct chunks of the index, at most
\* k of them, each with the similarity the embedding provider gives it
Retrievals(store) ==
    LET chunks == ChunksOf(store)
        scored == {[doc |-> c, sim |-> x] : c \in chunks, x \in Similarities}
    IN UNION {{q \in [1..n -> scored] :
                   \A i, j \in 1..n : i # j => q[i].doc # q[j].doc} :
              n \in 0..RetrieveLimit}

\* the outcome of a collaborator that the call never gets to
Unused == Raise

Env(sf, r, e, sy, pr) ==
    [search_fault |-> sf, retrieved |-> r, embed_fail_at |-> e, synth |-> sy,
     predict |-> pr]

\* what the collaborators can do during one generate_response call; a fault
\* ends the call, so the collaborators after it are left out
GenEnvsOver(store, retrievals, answers, predicts) ==
    IF store = None
    THEN {Env(FALSE, <<>>, -1, Unused, Unused)}
    ELSE {Env(TRUE, <<>>, -1, Unused, Unused)}
         \cup {Env(FALSE, r, e, Unused, Unused) :
                   r \in retrievals, e \in 0..RetrieveLimit}
         \cup {Env(FALSE, r, -1, Raise, Unused) : r \in retrievals}
         \cup {Env(FALSE, r, -1, Return(answer), pr) :
                   r \in retrievals, answer \in answers, pr \in predicts}

GenEnvs(store) == GenEnvsOver(store, Retrievals(store), Answers, PredictOutcomes)

(***************************************************************************)
(* The state after construction: nothing indexed, no session data.         *)
(***************************************************************************)
EmptyDict == [k \in {} |-> None]

\* the call before the current one, when it indexed a folder successfully and
\* without any fault of the filesystem or the embedding provider
NoPrev == [folder |-> "none", embedded |-> FALSE]

\* the folders on the machine: kbA holds PDFs and a Word file, kbB only an
\* Excel file, kbC no file of a supported type
FolderContents ==
    [f \in Folders |->
        CASE f = "kbA" -> {"a.pdf", "d.pdf", "b.docx", "n.txt"}
          [] f = "kbB" -> {"c.xlsx", "n.txt"}
          [] OTHER -> {"n.txt"}]

Init ==
    /\ folder_files = FolderContents
    /\ disk = [f \in Folders |-> Absent]
    /\ vector_store = [u \in Users |-> None]
    /\ user_data = [u \in Users |-> EmptyDict]
    /\ users_db = EmptyDict
    /\ last = [op |-> "idle", prev |-> NoPrev]

(***************************************************************************)
(* The core's public operations, called on the service of user u.          *)
(***************************************************************************)
IsOk(value) == value.t = "tuple" /\ Len(value.v) >= 1 /\ value.v[1] = Bool(TRUE)

\* the service handles one call at a time: a call starts when it is idle
Idle == last.op = "idle"

\* between two calls: the caller has taken the result of the last one
ReturnToCaller ==
    /\ ~Idle
    /\ last' = [op |-> "idle",
                prev |-> IF /\ last.op = "load_and_index_documents"
                            /\ IsOk(last.value)
                            /\ last.faults = {}
                         THEN [folder |-> last.folder_path,
                               embedded |-> last.embedded]
                         ELSE NoPrev]
    /\ UNCHANGED <<folder_files, disk, vector_store, user_data, users_db>>

LoadAndIndex(u, folder_path, faults, unreadable) ==
    LET out == load_and_index_documents(vector_store[u], folder_path, faults, unreadable)
    IN  /\ Idle
        /\ last' = out @@ [op |-> "load_and_index_documents", user |-> u,
                           folder_path |-> folder_path, faults |-> faults,
                           unreadable |-> unreadable, vs_before |-> vector_store[u],
                           dir_before |-> IF folder_path \in Folders
                                          THEN disk[folder_path] ELSE Absent,
                           prev |-> last.prev]
        /\ vector_store' = [vector_store EXCEPT ![u] = last'.vs]
        /\ disk' = IF folder_path \in Folders
                   THEN [disk EXCEPT ![folder_path] = last'.dir]
                   ELSE disk
        /\ UNCHANGED <<folder_files, user_data, users_db>>

GenerateResponse(u, prompt, chat_history, env) ==
    /\ Idle
    /\ last' = generate_response(vector_store[u], prompt, chat_history, env)
                @@ [op |-> "generate_response", user |-> u, prompt |-> prompt,
                    chat_history |-> chat_history, env |-> env,
                    vs |-> vector_store[u],
                    search_fault |-> vector_store[u] # None /\ env.search_fault,
                    embed_failed |-> /\ vector_store[u] # None
                                     /\ ~env.search_fault
                                     /\ env.embed_fail_at \in 0..Len(env.retrieved)]
    /\ UNCHANGED <<folder_files, disk, vector_store, user_data, users_db>>

GetEmptyDocs(u, folder_path, faults, unreadable, empty_pages) ==
    LET out == get_empty_docs(folder_path, faults, unreadable, empty_pages)
    IN  /\ Idle
        /\ last' = [op |-> "get_empty_docs", user |-> u, folder_path |-> folder_path,
                    raised |-> out.raised, value |-> out.value]
        /\ UNCHANGED <<folder_files, disk, vector_store, user_data, users_db>>

\* a reset that empties the index of every service
clear_every_vector_store(stores, u) == [x \in DOMAIN stores |-> None]

\* llm_service = context.user_data.get("llm_service"); llm_service.vector_store = None
clear_vector_store(stores, u) == [stores EXCEPT ![u] = None]

\* llm_service.vector_store = None, the assignment clear_context makes
ClearVectorStore(u) ==
    /\ Idle
    /\ vector_store' = clear_vector_store(vector_store, u)
    /\ last' = [op |-> "clear_vector_store", user |-> u]
    /\ UNCHANGED <<folder_files, disk, user_data, users_db>>

Pdfs == {filename \in FileNames : Ext(filename) = ".pdf"}

CoreUsers == {"u1"}

CoreNext ==
    \/ Idle /\ \E u \in CoreUsers, p \in Paths, faults \in SUBSET IndexFaults,
                  unreadable \in SUBSET Pdfs :
                  LoadAndIndex(u, p, faults, unreadable)
    \/ Idle /\ \E u \in CoreUsers, prompt \in Prompts, h \in Histories :
                  \E env \in GenEnvs(vector_store[u]) :
                      GenerateResponse(u, prompt, h, env)
    \/ Idle /\ \E u \in CoreUsers, p \in Paths, faults \in SUBSET {"listdir"},
                  unreadable \in SUBSET Pdfs, empty_pages \in SUBSET Pdfs :
                  GetEmptyDocs(u, p, faults, unreadable, empty_pages)
    \/ Idle /\ \E u \in CoreUsers : ClearVectorStore(u)
    \/ ReturnToCaller

CoreSpec == Init /\ [][CoreNext]_vars

(***************************************************************************)
(* Properties of the core (CoreSpec).                                      *)
(***************************************************************************)
IsGen == last.op = "generate_response"
IsLoad == last.op = "load_and_index_documents"

Sims(scores) == {scores[i].sim : i \in 1..Len(scores)}
HasReferenceBlock(lines) == \E i \in 1..Len(lines) : lines[i] = "References (/references):"

\* C1: generate_response returns a 3-tuple (answer, sources or None, suggestions
\* or None) on every path; when a collaborator raised inside the call, the result
\* is the generic error answer with None sources and None suggestions.
C1_ThreeTuple ==
    IsGen =>
        /\ ~last.raised
        /\ last.value.t = "tuple"
        /\ Len(last.value.v) = 3
        /\ last.value.v[1].t = "str"
        /\ last.value.v[2].t \in {"None", "set"}
        /\ last.value.v[3].t \in {"None", "list"}
        /\ (last.search_fault \/ last.embed_failed
                \/ last.llm_calls = <<"synthesize">>) =>
               last.value = Tuple(<<Str(GenerateErrorMsg), None, None>>)

\* C3: a fault-free load_and_index_documents call on a folder, made right after
\* a fault-free call on the same folder that returned success, returns success,
\* adopts the persisted index, and invokes neither the document loader nor the
\* embedding provider; the two calls embed at most once.
C3_IdempotentReindex ==
    (IsLoad /\ last.prev.folder = last.folder_path /\ last.faults = {}) =>
        /\ IsOk(last.value)
        /\ ~last.embedded
        /\ ~last.loader_invoked
        /\ last.dir.t = "index"
        /\ last.vs = last.dir
        /\ vector_store[last.user] = disk[last.folder_path]
        /\ ~(last.prev.embedded /\ last.embedded)

\* the second call of the pair, after a first call that built the index
C3_Witness ==
    /\ IsLoad /\ last.prev.folder = last.folder_path /\ last.faults = {}
    /\ last.prev.embedded
    /\ IsOk(last.value)

SupportedTypes == {".pdf", ".docx", ".xlsx"}

NoSupportedFile(folder_path) ==
    /\ folder_path \in Folders
    /\ \A filename \in folder_files[folder_path] : Ext(filename) \notin SupportedTypes

OfficeFiles(folder_path) ==
    {filename \in folder_files[folder_path] : Ext(filename) \in {".docx", ".xlsx"}}

\* C14: a fault-free build of the index of a folder takes in every Word and
\* Excel file of the folder, so that a folder whose only supported files are
\* Word or Excel files is indexed successfully.
C14_WordExcelLoaded ==
    (IsLoad /\ last.folder_path \in Folders /\ last.faults = {}
            /\ last.dir_before.t # "index"
            /\ OfficeFiles(last.folder_path) # {}) =>
        /\ IsOk(last.value)
        /\ last.vs.t = "index"
        /\ OfficeFiles(last.folder_path) \subseteq last.vs.files

\* C15: when the embedding provider fails during the build of an index,
\* load_and_index_documents returns a failure and the vector_store directory
\* of the folder is as it was before the call.
C15_BuildFailurePersistsNothing ==
    (IsLoad /\ last.embedded /\ "build" \in last.faults) =>
        /\ ~last.raised
        /\ last.value = Tuple(<<Bool(FALSE), ExceptionText>>)
        /\ last.dir = last.dir_before
        /\ disk[last.folder_path] = last.dir_before

\* the build fails in a folder that has no vector_store directory: none is left
C15_Witness ==
    /\ IsLoad /\ last.embedded /\ "build" \in last.faults
    /\ last.dir_before = Absent
    /\ disk[last.folder_path] = Absent
    /\ last.value.v[1] = Bool(FALSE)

\* C4: load_and_index_documents, generate_response and get_empty_docs return a
\* result and never raise, whatever the input and whatever fails.
C4_NoRaise ==
    last.op \in {"load_and_index_documents", "generate_response", "get_empty_docs"}
        => ~last.raised

\* C5: generate_response with no active index returns the 'set the folder path'
\* message with None sources and None suggestions, and makes no search, no
\* embedding call and no chat-model call.
C5_NoIndex ==
    (IsGen /\ last.vs = None) =>
        /\ last.value = Tuple(<<Str(NoIndexMsg), None, None>>)
        /\ last.llm_calls = <<>>
        /\ last.embed_calls = 0
        /\ last.search_query = None
        /\ last.stages = <<"START", "DONE">>

\* the index was built and persisted, then cleared, then queried
C5_Witness ==
    /\ IsGen /\ last.vs = None
    /\ disk["kbA"].t = "index"
    /\ last.value.v[1] = Str(NoIndexMsg)

\* C6: when the maximum similarity over the scored candidates is below
\* RELEVANCE_THRESHOLD_PROMPT, generate_response returns no source files and
\* an answer without a reference block.
C6_RelevanceGate ==
    (IsGen /\ Max(Sims(last.scores), 0) < RELEVANCE_THRESHOLD_PROMPT) =>
        /\ last.value.v[2] = None
        /\ ~HasReferenceBlock(last.value.v[1].v)

\* an answer synthesized from a candidate that clears only the weaker cutoff
C6_Witness ==
    /\ IsGen /\ Max(Sims(last.scores), 0) < RELEVANCE_THRESHOLD_PROMPT
    /\ 70 \in Sims(last.scores)
    /\ last.llm_calls = <<"synthesize", "suggest">>
    /\ last.value.v[2] = None

\* C7: every query that searches the index went through QUERY_REWRITE first:
\* the chat model was asked to rewrite the message, before RETRIEVE.
C7_RewriteBeforeRetrieve ==
    (IsGen /\ "RETRIEVE" \in RangeOf(last.stages)) =>
        /\ \E i, j \in 1..Len(last.stages) :
               /\ i < j
               /\ last.stages[i] = "QUERY_REWRITE"
               /\ last.stages[j] = "RETRIEVE"
        /\ "rewrite" \in RangeOf(last.llm_calls)

\* C8: when the call scored its candidates and none reaches
\* RELEVANCE_THRESHOLD_DOCS (or there was none), it returns the canned 'could
\* not find relevant information' answer with None sources and suggestions and
\* makes no chat-model call.
C8_ShortCircuit ==
    (IsGen /\ "SCORE" \in RangeOf(last.stages)
           /\ \A x \in Sims(last.scores) : x < RELEVANCE_THRESHOLD_DOCS) =>
        /\ last.value = Tuple(<<Str(NotFoundMsg), None, None>>)
        /\ last.llm_calls = <<>>

\* candidates were retrieved and scored, all below the cutoff
C8_Witness ==
    /\ IsGen /\ "SCORE" \in RangeOf(last.stages)
    /\ last.scores # <<>>
    /\ \A x \in Sims(last.scores) : x < RELEVANCE_THRESHOLD_DOCS
    /\ last.value.v[1] = Str(NotFoundMsg)

\* C9: a provider failure during the index search or during the embedding of
\* the query or of a chunk gives the generic error answer.
C9_RetrievalErrorIsGenerationError ==
    (IsGen /\ (last.search_fault \/ last.embed_failed)) =>
        last.value.v[1] = Str(GenerateErrorMsg)

\* the suggestion generator failed: llm.predict raised, or replied nothing
SuggestionFailure(predict) == predict.raised \/ Strip(predict.value) = <<>>

\* C11: when the suggestion generator fails after a synthesis, generate_response
\* returns the answer and the source files it returns for the same call with a
\* working suggestion generator, and None for the suggestions.
C11_SuggestionFailureIsolated ==
    (IsGen /\ last.llm_calls = <<"synthesize", "suggest">>
           /\ SuggestionFailure(last.env.predict)) =>
        LET working == [last.env EXCEPT !.predict = Return(<<"w", "\n", "w">>)]
            other == generate_response(last.vs, last.prompt, last.chat_history, working)
        IN  /\ ~last.raised
            /\ other.value.v[3] = List(<<<<"w">>, <<"w">>>>)
            /\ last.value = Tuple(<<other.value.v[1], other.value.v[2], None>>)
            /\ last.value.v[1].v # GenerateErrorMsg

\* llm.predict raised after an answer with references was synthesized
C11_Witness ==
    /\ IsGen /\ last.llm_calls = <<"synthesize", "suggest">>
    /\ last.env.predict.raised
    /\ last.value.v[2] # None
    /\ last.value.v[3] = None

(***************************************************************************)
(* generate_suggestions on its own (SuggestSpec): the reply of the model   *)
(* is any text of at most MaxTextLen tokens, or the call raises.           *)
(***************************************************************************)
Texts == UNION {[1..n -> Tokens] : n \in 0..MaxTextLen}

SuggestInit ==
    /\ folder_files = [f \in Folders |-> {}]
    /\ disk = [f \in Folders |-> Absent]
    /\ vector_store = [u \in Users |-> None]
    /\ user_data = [u \in Users |-> EmptyDict]
    /\ users_db = EmptyDict
    /\ last \in {[op |-> "llm.predict", predict |-> pr, n |-> n] :
                    pr \in {Raise} \cup {Return(reply) : reply \in Texts},
                    n \in 0..MaxN}

GenerateSuggestions ==
    /\ last.op = "llm.predict"
    /\ last' = [op |-> "generate_suggestions", predict |-> last.predict, n |-> last.n,
                value |-> generate_suggestions(last.predict, last.n)]
    /\ UNCHANGED <<folder_files, disk, vector_store, user_data, users_db>>

SuggestNext == GenerateSuggestions

SuggestSpec == SuggestInit /\ [][SuggestNext]_vars

\* the model declines: 'No suggestions needed', in any case, with or without
\* the full stop, surrounded by any white space
Declines(predict) ==
    ~predict.raised /\ LowerText(Strip(predict.value)) \in {<<"nsn">>, <<"nsn", ".">>}

\* C10: generate_suggestions returns None or a list of 1..n items, and None
\* whenever the model replies that no suggestions are needed.
C10_SuggestionCap ==
    last.op = "generate_suggestions" =>
        /\ last.value.t \in {"None", "list"}
        /\ last.value.t = "list" =>
               (Len(last.value.v) >= 1 /\ Len(last.value.v) <= last.n)
        /\ Declines(last.predict) => last.value = None

(***************************************************************************)
(* The reference block on its own (RefSpec): lines 250-272 of              *)
(* generate_response applied to any relevant_docs of at most MaxRelevant   *)
(* chunks of an index.  A PDF chunk has the page PyMuPDFLoader gave it; a  *)
(* chunk made by Document(page_content, metadata={"source": filename}) has *)
(* no page.                                                                *)
(***************************************************************************)
RefChunks ==
    {[source |-> "doc_a.pdf", page |-> 2], [source |-> "doc_a.pdf", page |-> 5],
     [source |-> "a.pdf", page |-> 0],
     [source |-> "doc_b.docx"], [source |-> "c.xlsx"]}

RefInit ==
    /\ folder_files = [f \in Folders |-> {}]
    /\ disk = [f \in Folders |-> Absent]
    /\ vector_store = [u \in Users |-> None]
    /\ user_data = [u \in Users |-> EmptyDict]
    /\ users_db = EmptyDict
    /\ last \in {[op |-> "relevant_docs", relevant_docs |-> q, answer |-> answer] :
                    q \in UNION {[1..n -> RefChunks] : n \in 1..MaxRelevant},
                    answer \in Answers}

BuildReferences ==
    /\ last.op = "relevant_docs"
    /\ last' = [op |-> "references", relevant_docs |-> last.relevant_docs,
                answer |-> last.answer,
                response |-> parser_html(with_references(last.answer,
                                                         last.relevant_docs))]
    /\ UNCHANGED <<folder_files, disk, vector_store, user_data, users_db>>

RefNext == BuildReferences

RefSpec == RefInit /\ [][RefNext]_vars

\* the lines of the response after the header of the reference block, without
\* the empty piece that ends the text
ReferenceBlock(response) ==
    LET h == CHOOSE i \in 1..Len(response) : response[i] = "References (/references):"
    IN SubSeq(response, h + 1, Len(response) - 1)

\* a set of pages, written in ascending order
PagesAscending(pages) ==
    CASE pages = {2} -> "2"
      [] pages = {5} -> "5"
      [] pages = {2, 5} -> "2, 5"
      [] pages = {0} -> "0"
      [] pages = {NoPage} -> "Unknown"

\* C12: the reference block has exactly one line per distinct source filename,
\* the filenames in the order in which they first occur among the relevant
\* chunks, each line listing the distinct pages of the file in ascending order,
\* with Unknown for a chunk without page metadata.
C12_ReferenceBlock ==
    last.op = "references" =>
        LET docs == last.relevant_docs
            block == ReferenceBlock(last.response)
            names == {docs[i].source : i \in 1..Len(docs)}
            first(name) == CHOOSE i \in 1..Len(docs) :
                               /\ docs[i].source = name
                               /\ \A k \in 1..(i - 1) : docs[k].source # name
            pages(name) == {PageOf(docs[i]) :
                               i \in {k \in 1..Len(docs) : docs[k].source = name}}
        IN  /\ HasReferenceBlock(last.response)
            /\ last.response[Len(last.response)] = ""
            /\ Len(block) = Cardinality(names)
            /\ \A name \in names :
                   \E i \in 1..Len(block) :
                       /\ block[i] = name \o ", pages: " \o PagesAscending(pages(name))
                       /\ i = Cardinality({other \in names : first(other) <= first(name)})

\* the chunks doc_a.pdf page 5, doc_a.pdf page 2 and doc_b.docx, in that order
C12_Witness ==
    /\ last.op = "references"
    /\ last.relevant_docs = <<[source |-> "doc_a.pdf", page |-> 5],
                              [source |-> "doc_a.pdf", page |-> 2],
                              [source |-> "doc_b.docx"]>>
    /\ ReferenceBlock(last.response) =
           <<"doc_a.pdf, pages: 2, 5", "doc_b.docx, pages: Unknown">>

(***************************************************************************)
(* A build next to a reader (RebuildSpec): the LLMService of u1 runs        *)
(* load_and_index_documents on kbA statement by statement, while the       *)
(* LLMService of u2, in another process, runs load_vector_store on the     *)
(* same folder.  save_vector_store writes into the vector_store directory  *)
(* itself: mkdir, then save_local, which has written a part of the files   *)
(* of the index before it has written them all.  FAISS.load_local on a     *)
(* directory that is being written over an index either raises or returns  *)
(* what it finds, files of the old index next to files of the new one; on  *)
(* a directory that held no index before, it raises.                       *)
(***************************************************************************)
Partial(old, new) == [t |-> "partial", old |-> old, new |-> new]

RebuildInit ==
    /\ folder_files = FolderContents
    /\ disk = [f \in Folders |-> Absent]
    /\ vector_store = [u \in Users |-> None]
    /\ user_data = [u \in Users |-> EmptyDict]
    /\ users_db = EmptyDict
    /\ last = [op |-> "rebuild", pc |-> "idle"]

\* lines 107-163: load the persisted index, else read the folder and build
RbStart(faults, unreadable) ==
    LET lv == load_vector_store(vector_store["u1"], "kbA", faults)
        loaded == LoadedFiles(folder_files["kbA"], unreadable)
        fd == from_documents("kbA", loaded, faults)
    IN  /\ last.op = "rebuild" /\ last.pc = "idle"
        /\ IF Truthy(lv.value)
           THEN /\ vector_store' = [vector_store EXCEPT !["u1"] = lv.vs]
                /\ UNCHANGED last
           ELSE IF loaded = {} \/ fd.raised
           THEN UNCHANGED <<vector_store, last>>
           ELSE /\ vector_store' = [vector_store EXCEPT !["u1"] = fd.value]
                /\ last' = [last EXCEPT !.pc = "mkdir"]
        /\ UNCHANGED <<folder_files, disk, user_data, users_db>>

\* line 67: vector_store_dir.mkdir(parents=True, exist_ok=True)
RbMkdir ==
    /\ last.op = "rebuild" /\ last.pc = "mkdir"
    /\ disk' = [disk EXCEPT !["kbA"] = IF @ = Absent THEN Broken ELSE @]
    /\ last' = [last EXCEPT !.pc = "save_local"]
    /\ UNCHANGED <<folder_files, vector_store, user_data, users_db>>

\* line 69, save_local has written a part of the index
RbSaveLocalBegin ==
    /\ last.op = "rebuild" /\ last.pc = "save_local"
    /\ disk' = [disk EXCEPT !["kbA"] = Partial(@, vector_store["u1"])]
    /\ last' = [last EXCEPT !.pc = "writing"]
    /\ UNCHANGED <<folder_files, vector_store, user_data, users_db>>

\* line 69, save_local returns or raises; lines 73-75 and 171-173
RbSaveLocalEnd(faults) ==
    /\ last.op = "rebuild" /\ last.pc = "writing"
    /\ disk' = [disk EXCEPT !["kbA"] =
                    save_vector_store(vector_store["u1"], "kbA", faults).dir]
    /\ last' = [last EXCEPT !.pc = "idle"]
    /\ UNCHANGED <<folder_files, vector_store, user_data, users_db>>

\* the reader: load_vector_store of the service of u2, at any moment
RbRead(faults) ==
    LET lv == load_vector_store(vector_store["u2"], "kbA", faults)
    IN  /\ last.op = "rebuild"
        /\ (disk["kbA"].t = "partial" /\ disk["kbA"].old.t # "index")
               => "load" \in faults
        /\ vector_store' = [vector_store EXCEPT !["u2"] = lv.vs]
        /\ UNCHANGED <<folder_files, disk, user_data, users_db, last>>

RebuildNext ==
    \/ \E faults \in SUBSET {"load"}, unreadable \in SUBSET Pdfs :
           RbStart(faults, unreadable)
    \/ RbMkdir
    \/ RbSaveLocalBegin
    \/ \E faults \in SUBSET {"save_local"} : RbSaveLocalEnd(faults)
    \/ \E faults \in SUBSET {"load"} : RbRead(faults)

RebuildSpec == RebuildInit /\ [][RebuildNext]_vars

\* C16: a reader that loads the persisted index of a folder while the index is
\* built and saved holds no index, the old index or the new index, never a
\* directory that was only partly written.
C16_NoPartialObservation ==
    last.op = "rebuild" => vector_store["u2"].t \in {"None", "index"}

(***************************************************************************)
(* The bot (Spec): the Telegram handlers of handlers.py.  Each user has a  *)
(* session dict (context.user_data) and, in it, an LLMService of their     *)
(* own.  The keys that only serve logging (conversation_id,                *)
(* system_response, user_name, language) are left out; replies are named   *)
(* after the function of text.py that builds them.                         *)
(***************************************************************************)
Get(d, k, default) == IF k \in DOMAIN d THEN d[k] ELSE default
Put(d, k, val) == [x \in DOMAIN d \cup {k} |-> IF x = k THEN val ELSE d[x]]
Pop(d, keys) == [x \in DOMAIN d \ keys |-> d[x]]

Reply(text, buttons) == [text |-> text, buttons |-> buttons]
Say(name) == <<Reply(<<name>>, <<>>)>>

\* settings.knowledge_base_paths: the third knowledge base is configured with a
\* path that is not a directory of this machine
knowledge_base_paths ==
    [name \in {"KB A", "KB B", "KB C"} |->
        CASE name = "KB A" -> "kbA" [] name = "KB B" -> "kbB" [] OTHER -> "missing"]

\* DatabaseService.save_user_info: INSERT ... ON CONFLICT (user_id) DO UPDATE of
\* name, language and last_active; a new row gets access = True
save_user_info(db, u) ==
    IF u \in DOMAIN db
    THEN db
    ELSE Put(db, u, [access |-> TRUE, is_active |-> TRUE, current_language |-> "English"])

\* DatabaseService.update_current_language
update_current_language(db, u, language) ==
    IF u \in DOMAIN db THEN [db EXCEPT ![u].current_language = language] ELSE db

\* a check that looks for an active row only
check_user_access_any_row(db, u) == u \in DOMAIN db /\ db[u].is_active

\* DatabaseService.check_user_access
check_user_access(db, u) == u \in DOMAIN db /\ db[u].is_active /\ db[u].access

DbFaults == {"none", "save_user_info", "check_user_access", "update_last_active",
             "initialize_services"}

(***************************************************************************)
(* handlers.authorized_only followed by handlers.initialize_services: the  *)
(* handler body runs only when pass is TRUE; otherwise replies were sent.  *)
(***************************************************************************)
authorized_only(u, db_fault) ==
    LET gate(pass, replies, db) ==
            [pass |-> pass, replies |-> replies, db |-> db, db_fault |-> db_fault]
    IN  IF db_fault = "save_user_info"
        THEN gate(FALSE, Say("Responses.generic_error"), users_db)
        ELSE LET db == save_user_info(users_db, u)
             IN IF db_fault = "check_user_access" \/ ~check_user_access(db, u)
                THEN gate(FALSE, Say("Responses.access_denied"), db)
                ELSE IF db_fault \in {"update_last_active", "initialize_services"}
                THEN gate(FALSE, Say("Responses.generic_error"), db)
                ELSE gate(TRUE, <<>>, db)

\* a gate that lets every message through
ensure_documents_indexed_never(d) == [pass |-> TRUE, replies |-> <<>>]

\* handlers.ensure_documents_indexed
ensure_documents_indexed(d) ==
    IF ~Truthy(Get(d, "vector_store_loaded", Bool(FALSE)))
    THEN [pass |-> FALSE, replies |-> Say("ContextErrors.documents_not_indexed")]
    ELSE IF ~Truthy(Get(d, "valid_files_in_folder", FileList({})))
    THEN [pass |-> FALSE, replies |-> Say("ContextErrors.no_valid_documents")]
    ELSE [pass |-> TRUE, replies |-> <<>>]

\* the orders in which a set can be iterated
Orders(S) == {q \in [1..Cardinality(S) -> S] : \A i, j \in 1..Cardinality(S) :
                                                   i # j => q[i] # q[j]}

FileId(idx) == "file_" \o ToString(idx)

\* os.listdir(folder_path) without a filter
listdir(folder_path) == folder_files[folder_path]

\* os.listdir(folder_path) filtered by the supported extensions
valid_files(folder_path) ==
    {f \in folder_files[folder_path] : Ext(f) \in {".pdf", ".docx", ".xlsx"}}

Denied(op, u, gate) ==
    [op |-> op, user |-> u, db_fault |-> gate.db_fault, body_ran |-> FALSE,
     replies |-> gate.replies]

\* the inputs of the bot's calls: single faults, and searches whose candidates
\* all have the same similarity
BotIndexFaults == {{}} \cup {{x} : x \in IndexFaults}
BotUnreadable == {{}, {"a.pdf"}, Pdfs}
UniformRetrievals(store) ==
    {r \in Retrievals(store) : \A i, j \in 1..Len(r) : r[i].sim = r[j].sim}
BotGenEnvs(store) ==
    GenEnvsOver(store, UniformRetrievals(store), {<<"# Title", "**bold** text">>},
                {Return(<<"NSN", ".">>), Return(<<"1", ".", " ", "w", "\n", "-", " ", "w">>)})

(***************************************************************************)
(* BotHandlers.handle_message from the call of generate_response on: gen   *)
(* is the outcome of the call.  The result is unpacked into two names; the *)
(* answer is sent with one button per source file, and the ids of the      *)
(* buttons are kept in context.user_data["file_id_map"].                   *)
(***************************************************************************)
SendAnswer(u, db_fault, gen) ==
    LET result == gen.value
        called == [op |-> "handle_message", user |-> u, db_fault |-> db_fault,
                   body_ran |-> TRUE, generated |-> result, stages |-> gen.stages]
    IN  IF gen.raised \/ result.t # "tuple" \/ Len(result.v) # 2
        THEN \* response, source_files = ... cannot unpack: except branch
             /\ last' = called @@ [replies |-> Say("Responses.processing_error")]
             /\ UNCHANGED user_data
        ELSE
        LET response == result.v[1]
            source_files == result.v[2]
        IN  IF Truthy(source_files)
            THEN \E order \in Orders(source_files.v) :
                 /\ last' = called @@
                        [replies |-> <<Reply(response.v,
                            [i \in 1..Len(order) |->
                                [label |-> order[i],
                                 callback_data |-> "get_file:" \o FileId(i - 1)]])>>]
                 /\ user_data' = [user_data EXCEPT ![u] =
                        Put(@, "file_id_map",
                            [id \in {FileId(i - 1) : i \in 1..Len(order)} |->
                                order[CHOOSE i \in 1..Len(order) :
                                          FileId(i - 1) = id]])]
            ELSE /\ last' = called @@ [replies |-> <<Reply(response.v, <<>>)>>]
                 /\ UNCHANGED user_data

(***************************************************************************)
(* BotHandlers.handle_message: the reply to a text message.  The chat      *)
(* history is what get_chat_history returns; order is the order in which   *)
(* the set source_files is iterated.                                       *)
(***************************************************************************)
HandleMessage(u, prompt, db_fault) ==
    LET auth == authorized_only(u, db_fault)
        indexed == ensure_documents_indexed(user_data[u])
    IN  /\ Idle
        /\ users_db' = auth.db
        /\ UNCHANGED <<folder_files, disk, vector_store>>
        /\ IF ~auth.pass
           THEN /\ last' = Denied("handle_message", u, auth)
                /\ UNCHANGED user_data
           ELSE IF ~indexed.pass
           THEN /\ last' = [op |-> "handle_message", user |-> u, db_fault |-> db_fault, body_ran |-> FALSE,
                            replies |-> indexed.replies]
                /\ UNCHANGED user_data
           ELSE
           \E chat_history \in Histories \ {None}, env \in BotGenEnvs(vector_store[u]) :
           SendAnswer(u, db_fault,
                      generate_response(vector_store[u], prompt, chat_history, env))

(***************************************************************************)
(* handle_message with a service whose generate_response returns the pair  *)
(* (response, source_files) that the handler unpacks, as the mocked         *)
(* LLMService of test_handle_message does.                                 *)
(***************************************************************************)
MockedResponses ==
    {Return(Tuple(<<Str(<<"This is a test response.">>), source_files>>))
         @@ [stages |-> <<>>] :
        source_files \in {None} \cup {SetOf(S) : S \in (SUBSET Pdfs) \ {{}}}}

HandleMessageMocked(u, db_fault, gen) ==
    LET auth == authorized_only(u, db_fault)
        indexed == ensure_documents_indexed(user_data[u])
    IN  /\ Idle
        /\ users_db' = auth.db
        /\ UNCHANGED <<folder_files, disk, vector_store>>
        /\ IF ~auth.pass
           THEN /\ last' = Denied("handle_message", u, auth)
                /\ UNCHANGED user_data
           ELSE IF ~indexed.pass
           THEN /\ last' = [op |-> "handle_message", user |-> u, db_fault |-> db_fault,
                            body_ran |-> FALSE, replies |-> indexed.replies]
                /\ UNCHANGED user_data
           ELSE SendAnswer(u, db_fault, gen)

(***************************************************************************)
(* BotHandlers.set_knowledge_base: the callback of a knowledge-base button.*)
(* listdir_fault: the handler's own os.listdir raises.                     *)
(***************************************************************************)
SetKnowledgeBase(u, selection, listdir_fault, db_fault) ==
    LET auth == authorized_only(u, db_fault)
        done(d, replies, load) ==
            /\ user_data' = [user_data EXCEPT ![u] = d]
            /\ last' = [op |-> "set_knowledge_base", user |-> u, db_fault |-> db_fault, body_ran |-> TRUE,
                        selection |-> selection, replies |-> replies, load |-> load]
        NotCalled == [called |-> FALSE]
    IN  /\ Idle
        /\ users_db' = auth.db
        /\ UNCHANGED folder_files
        /\ IF ~auth.pass
           THEN /\ last' = Denied("set_knowledge_base", u, auth)
                /\ UNCHANGED <<user_data, vector_store, disk>>
           ELSE IF selection \notin DOMAIN knowledge_base_paths
           THEN /\ done(user_data[u],
                        Say("KnowledgeBaseResponses.unknown_knowledge_base"), NotCalled)
                /\ UNCHANGED <<vector_store, disk>>
           ELSE
           LET folder_path == knowledge_base_paths[selection]
               d1 == Put(Put(user_data[u], "folder_path", folder_path),
                         "context_source", "folder")
           IN  IF folder_path \notin Folders \/ listdir_fault
               THEN \* os.listdir raises: the except branch of the handler
                    /\ done(d1, Say("Responses.generic_error"), NotCalled)
                    /\ UNCHANGED <<vector_store, disk>>
               ELSE
               LET d2 == Put(d1, "valid_files_in_folder",
                             FileList(valid_files(folder_path)))
               IN  IF valid_files(folder_path) = {}
                   THEN /\ done(d2,
                          Say("KnowledgeBaseResponses.no_valid_files_in_knowledge_base"),
                          NotCalled)
                        /\ UNCHANGED <<vector_store, disk>>
                   ELSE
                   \E faults \in BotIndexFaults, unreadable \in BotUnreadable :
                   LET out == load_and_index_documents(vector_store[u], folder_path,
                                                       faults, unreadable)
                       load == [called |-> TRUE, value |-> out.value,
                                embedded |-> out.embedded, faults |-> faults]
                   IN  /\ vector_store' = [vector_store EXCEPT ![u] = out.vs]
                       /\ disk' = [disk EXCEPT ![folder_path] = out.dir]
                       /\ IF ~Truthy(out.value.v[1])
                          THEN done(d2, Say("KnowledgeBaseResponses.indexing_error"),
                                    load)
                          ELSE done(Put(d2, "vector_store_loaded", Bool(TRUE)),
                                    Say("KnowledgeBaseResponses.knowledge_base_set_success"),
                                    load)

\* Python's == between two values
PyEq(a, b) == a.t = b.t /\ a.v = b.v

\* the status set_folder compares the result of the indexing call with
FolderIndexedStatus == Str(<<"Documents successfully indexed.">>)

\* os.path.isdir(folder_path)
isdir(folder_path) == folder_path \in Folders

(***************************************************************************)
(* BotHandlers.set_folder: the text message that carries a folder path.    *)
(* os.listdir is outside the handler's try: when it raises, log_event      *)
(* replies with the generic error.                                         *)
(***************************************************************************)
SetFolder(u, folder_path, listdir_fault, db_fault) ==
    LET auth == authorized_only(u, db_fault)
        done(d, replies, load) ==
            /\ user_data' = [user_data EXCEPT ![u] = d]
            /\ last' = [op |-> "set_folder", user |-> u, db_fault |-> db_fault, body_ran |-> TRUE,
                        folder_path |-> folder_path, replies |-> replies,
                        load |-> load, listdir_fault |-> listdir_fault,
                        before |-> user_data[u]]
        NotCalled == [called |-> FALSE]
    IN  /\ Idle
        /\ users_db' = auth.db
        /\ UNCHANGED folder_files
        /\ IF ~auth.pass
           THEN /\ last' = Denied("set_folder", u, auth)
                /\ UNCHANGED <<user_data, vector_store, disk>>
           ELSE IF ~isdir(folder_path)
           THEN /\ done(user_data[u], Say("Responses.invalid_folder_path"), NotCalled)
                /\ UNCHANGED <<vector_store, disk>>
           ELSE IF listdir_fault
           THEN /\ done(user_data[u], Say("Responses.generic_error"), NotCalled)
                /\ UNCHANGED <<vector_store, disk>>
           ELSE IF valid_files(folder_path) = {}
           THEN /\ done(user_data[u], Say("Responses.no_valid_files"), NotCalled)
                /\ UNCHANGED <<vector_store, disk>>
           ELSE
           \E faults \in BotIndexFaults, unreadable \in BotUnreadable :
           LET d1 == Put(Put(Put(user_data[u], "folder_path", folder_path),
                             "valid_files_in_folder", FileList(valid_files(folder_path))),
                         "context_source", "folder")
               out == load_and_index_documents(vector_store[u], folder_path,
                                               faults, unreadable)
               index_status == out.value
               load == [called |-> TRUE, value |-> out.value,
                        embedded |-> out.embedded, faults |-> faults]
           IN  /\ vector_store' = [vector_store EXCEPT ![u] = out.vs]
               /\ disk' = [disk EXCEPT ![folder_path] = out.dir]
               /\ IF ~PyEq(index_status, FolderIndexedStatus)
                  THEN done(d1, Say("Responses.indexing_error"), load)
                  ELSE LET empty_list == get_empty_docs(folder_path, faults, unreadable, {})
                       IN  IF empty_list.raised
                           THEN done(Put(d1, "vector_store_loaded", Bool(TRUE)),
                                     Say("Responses.generic_error"), load)
                           ELSE done(Put(d1, "vector_store_loaded", Bool(TRUE)),
                                     Say("Responses.folder_is_set"), load)

(***************************************************************************)
(* BotHandlers.clear_context: forget the session's knowledge base.         *)
(***************************************************************************)
ClearContext(u, db_fault) ==
    LET auth == authorized_only(u, db_fault)
    IN  /\ Idle
        /\ users_db' = auth.db
        /\ UNCHANGED <<folder_files, disk>>
        /\ IF ~auth.pass
           THEN /\ last' = Denied("clear_context", u, auth)
                /\ UNCHANGED <<user_data, vector_store>>
           ELSE /\ user_data' = [user_data EXCEPT ![u] =
                       Pop(@, {"folder_path", "vector_store_loaded",
                               "valid_files_in_folder", "context_source",
                               "file_id_map", "conversation_id"})]
                /\ vector_store' = clear_vector_store(vector_store, u)
                /\ last' = [op |-> "clear_context", user |-> u, db_fault |-> db_fault, body_ran |-> TRUE,
                            replies |-> Say("Responses.context_cleared")]

(***************************************************************************)
(* The handlers that only reply: /language, /status and /knowledge_base.   *)
(* status calls get_empty_docs, whose os.listdir can raise; log_event then *)
(* replies with the generic error.                                         *)
(***************************************************************************)
Languages == {"English", "Russian"}

Language(u, db_fault) ==
    LET auth == authorized_only(u, db_fault)
    IN  /\ Idle
        /\ users_db' = auth.db
        /\ UNCHANGED <<folder_files, disk, vector_store, user_data>>
        /\ last' = IF ~auth.pass
                   THEN Denied("language", u, auth)
                   ELSE [op |-> "language", user |-> u, db_fault |-> db_fault,
                         body_ran |-> TRUE,
                         replies |-> <<Reply(<<"LanguageResponses.select_language_prompt">>,
                                             <<"set_language:English", "set_language:Russian",
                                               "set_language:Indonesian">>)>>]

KnowledgeBase(u, db_fault) ==
    LET auth == authorized_only(u, db_fault)
    IN  /\ Idle
        /\ users_db' = auth.db
        /\ UNCHANGED <<folder_files, disk, vector_store, user_data>>
        /\ last' = IF ~auth.pass
                   THEN Denied("knowledge_base", u, auth)
                   ELSE [op |-> "knowledge_base", user |-> u, db_fault |-> db_fault,
                         body_ran |-> TRUE,
                         replies |-> <<Reply(<<"KnowledgeBaseResponses.select_knowledge_base">>,
                                             <<"set_knowledge:KB A", "set_knowledge:KB B",
                                               "set_knowledge:KB C">>)>>]

Status(u, listdir_fault, db_fault) ==
    LET auth == authorized_only(u, db_fault)
        d == user_data[u]
        folder_path == Get(d, "folder_path", "")
        valid_files_in_folder == Get(d, "valid_files_in_folder", FileList({}))
        context_source == Get(d, "context_source", "none")
        knowledge_base_name ==
            \E kb_name \in DOMAIN knowledge_base_paths :
                knowledge_base_paths[kb_name] = folder_path
        empty_list == get_empty_docs(folder_path, IF listdir_fault THEN {"listdir"} ELSE {},
                                     {}, {})
        system_response ==
            IF context_source = "folder"
            THEN IF knowledge_base_name /\ Truthy(valid_files_in_folder)
                 THEN IF empty_list.raised
                      THEN "Responses.generic_error"
                      ELSE "Status.knowledge_base_set"
                 ELSE IF knowledge_base_name
                      THEN "Status.knowledge_base_no_files"
                      ELSE "Status.no_knowledge_base_selected"
            ELSE "Status.no_knowledge_base_selected"
    IN  /\ Idle
        /\ users_db' = auth.db
        /\ UNCHANGED <<folder_files, disk, vector_store, user_data>>
        /\ last' = IF ~auth.pass
                   THEN Denied("status", u, auth)
                   ELSE [op |-> "status", user |-> u, db_fault |-> db_fault,
                         body_ran |-> TRUE, replies |-> Say(system_response)]

(***************************************************************************)
(* BotHandlers.set_language: the callback of a language button.  The       *)
(* language of the session is the users row's current_language, which      *)
(* initialize_services reads again at every update.                        *)
(***************************************************************************)
SetLanguage(u, data, db_fault) ==
    LET auth == authorized_only(u, db_fault)
    IN  /\ Idle
        /\ UNCHANGED <<folder_files, disk, vector_store, user_data>>
        /\ IF ~auth.pass
           THEN /\ last' = Denied("set_language", u, auth)
                /\ users_db' = auth.db
           ELSE IF data \in Languages
           THEN /\ last' = [op |-> "set_language", user |-> u, db_fault |-> db_fault,
                            body_ran |-> TRUE,
                            replies |-> Say("LanguageResponses.language_set_success")]
                /\ users_db' = IF db_fault = "update_current_language"
                               THEN auth.db
                               ELSE update_current_language(auth.db, u, data)
           ELSE /\ last' = [op |-> "set_language", user |-> u, db_fault |-> db_fault,
                            body_ran |-> TRUE, replies |-> Say("Responses.unknown_command")]
                /\ users_db' = auth.db

(***************************************************************************)
(* BotHandlers.send_file: the callback of a file button; the document is   *)
(* sent by send_document_async, which replies with an error when the file  *)
(* cannot be read.                                                         *)
(***************************************************************************)
Document(file_name) == [text |-> <<>>, buttons |-> <<>>, document |-> file_name]

isfile(folder_path, file_name) ==
    folder_path \in Folders /\ file_name \in folder_files[folder_path]

SendFile(u, file_id, read_fault, db_fault) ==
    LET auth == authorized_only(u, db_fault)
        file_id_map == Get(user_data[u], "file_id_map", EmptyDict)
        file_name == Get(file_id_map, file_id, "")
        folder_path == Get(user_data[u], "folder_path", "")
        said(replies) == [op |-> "send_file", user |-> u, db_fault |-> db_fault,
                          body_ran |-> TRUE, replies |-> replies]
    IN  /\ Idle
        /\ users_db' = auth.db
        /\ UNCHANGED <<folder_files, disk, vector_store, user_data>>
        /\ last' = IF ~auth.pass
                   THEN Denied("send_file", u, auth)
                   ELSE IF file_id = "?"
                   THEN said(Say("Responses.unknown_command"))
                   ELSE IF file_name = ""
                   THEN said(Say("FileResponses.file_not_found"))
                   ELSE IF folder_path = ""
                   THEN said(Say("FileResponses.folder_not_set"))
                   ELSE IF ~isfile(folder_path, file_name)
                   THEN said(Say("FileResponses.file_not_found"))
                   ELSE IF read_fault
                   THEN said(Say("FileResponses.send_file_error"))
                   ELSE said(<<Document(file_name)>>)

(***************************************************************************)
(* BotHandlers.grant_access: /grant_access <user_id>, for the admin only.  *)
(* DatabaseService.grant_access updates the row of the user when there is  *)
(* one and swallows its own exceptions.                                    *)
(***************************************************************************)
Admin == "u1"

\* the ids the admin passes to /grant_access while u2 stays without access:
\* the admin's own, one that has no row, and no id at all
GrantTargets == {"u1", "u0", ""}

grant_access(db, target) ==
    IF target \in DOMAIN db THEN [db EXCEPT ![target].access = TRUE] ELSE db

GrantAccess(u, target, db_fault) ==
    LET auth == authorized_only(u, db_fault)
    IN  /\ Idle
        /\ UNCHANGED <<folder_files, disk, vector_store, user_data>>
        /\ IF ~auth.pass
           THEN /\ last' = Denied("grant_access", u, auth)
                /\ users_db' = auth.db
           ELSE IF u # Admin
           THEN /\ last' = [op |-> "grant_access", user |-> u, db_fault |-> db_fault, body_ran |-> TRUE,
                            replies |-> Say("Responses.unauthorized_action")]
                /\ users_db' = auth.db
           ELSE IF target = ""
           THEN \* int(context.args[0]) raises IndexError or ValueError
                /\ last' = [op |-> "grant_access", user |-> u, db_fault |-> db_fault,
                            body_ran |-> TRUE,
                            replies |-> Say("Responses.grant_access_usage")]
                /\ users_db' = auth.db
           ELSE /\ last' = [op |-> "grant_access", user |-> u, db_fault |-> db_fault, body_ran |-> TRUE,
                            replies |-> Say("Responses.grant_access_success")]
                /\ users_db' = IF db_fault = "grant_access"
                               THEN auth.db
                               ELSE grant_access(auth.db, target)

\* the users table before the bot starts: u2 has a row without access
BotInit ==
    /\ folder_files = FolderContents
    /\ disk = [f \in Folders |-> Absent]
    /\ vector_store = [u \in Users |-> None]
    /\ user_data = [u \in Users |-> EmptyDict]
    /\ users_db = [u \in {"u2"} |->
                      [access |-> FALSE, is_active |-> TRUE, current_language |-> "English"]]
    /\ last = [op |-> "idle", prev |-> NoPrev]

Next ==
    \/ Idle /\ \E u \in Users, prompt \in Prompts, db_fault \in DbFaults :
                  HandleMessage(u, prompt, db_fault)
    \/ Idle /\ \E u \in Users, selection \in DOMAIN knowledge_base_paths \cup {"?"},
                  listdir_fault \in BOOLEAN, db_fault \in DbFaults :
                  SetKnowledgeBase(u, selection, listdir_fault, db_fault)
    \/ Idle /\ \E u \in Users, db_fault \in DbFaults : ClearContext(u, db_fault)
    \/ Idle /\ \E u \in Users, folder_path \in Paths, listdir_fault \in BOOLEAN,
                  db_fault \in DbFaults :
                  SetFolder(u, folder_path, listdir_fault, db_fault)
    \/ Idle /\ \E u \in Users, db_fault \in DbFaults : Language(u, db_fault)
    \/ Idle /\ \E u \in Users, data \in Languages \cup {"?"},
                  db_fault \in DbFaults \cup {"update_current_language"} :
                  SetLanguage(u, data, db_fault)
    \/ Idle /\ \E u \in Users, listdir_fault \in BOOLEAN, db_fault \in DbFaults :
                  Status(u, listdir_fault, db_fault)
    \/ Idle /\ \E u \in Users, db_fault \in DbFaults : KnowledgeBase(u, db_fault)
    \/ Idle /\ \E u \in Users, file_id \in {FileId(0), FileId(1), "?"},
                  read_fault \in BOOLEAN, db_fault \in DbFaults :
                  SendFile(u, file_id, read_fault, db_fault)
    \/ Idle /\ \E u \in Users, target \in GrantTargets,
                  db_fault \in DbFaults \cup {"grant_access"} :
                  GrantAccess(u, target, db_fault)
    \/ ReturnToCaller

Spec == BotInit /\ [][Next]_vars

(***************************************************************************)
(* Two sessions: the admin u1 can grant access to u2, and then both users  *)
(* select, set and clear knowledge bases, one update at a time             *)
(* (bot.py: application.run_polling()), with a database that answers.      *)
(***************************************************************************)
SessionNext ==
    \/ Idle /\ \E u \in Users, target \in Users \cup {""},
                  db_fault \in {"none", "grant_access"} :
                  GrantAccess(u, target, db_fault)
    \/ Idle /\ \E u \in Users, selection \in DOMAIN knowledge_base_paths :
                  SetKnowledgeBase(u, selection, FALSE, "none")
    \/ Idle /\ \E u \in Users : ClearContext(u, "none")
    \/ Idle /\ \E u \in Users, folder_path \in Paths : SetFolder(u, folder_path, FALSE, "none")
    \/ ReturnToCaller

SessionSpec == BotInit /\ [][SessionNext]_vars

\* the session of the user is indexed and the handler body ran
Answered == last.op = "handle_message" /\ last.body_ran

\* C17: the active index belongs to the session: a step changes the active
\* index of a user only when it is that user's own event.
C17_PerUserIndex ==
    [][\A u \in Users :
           vector_store'[u] # vector_store[u] => (last'.op # "idle" /\ last'.user = u)]_vars

\* u2 clears its context while u1 has an active index
C17_Witness ==
    /\ last.op = "clear_context" /\ last.user = "u2" /\ last.body_ran
    /\ vector_store["u1"].t = "index"
    /\ vector_store["u2"] = None

\* the indexing call of set_folder returned success
FolderIndexed ==
    /\ last.op = "set_folder" /\ last.body_ran
    /\ last.load.called /\ IsOk(last.load.value)

\* C18: set_folder with an existing directory that holds a supported file and
\* an indexing call that succeeds marks the session as indexed, records the
\* folder path and replies with the folder-set message, not an indexing error.
C18_FolderSetOnSuccess ==
    FolderIndexed =>
        /\ Get(user_data[last.user], "vector_store_loaded", Bool(FALSE)) = Bool(TRUE)
        /\ Get(user_data[last.user], "folder_path", "") = last.folder_path
        /\ last.replies = Say("Responses.folder_is_set")

\* the path is not a directory, or the directory holds no supported file
NoUsableFolder ==
    /\ last.op = "set_folder" /\ last.body_ran
    /\ \/ ~isdir(last.folder_path)
       \/ ~last.listdir_fault /\ NoSupportedFile(last.folder_path)

\* the keys of the session that describe its knowledge base
FolderKeys == {"folder_path", "valid_files_in_folder", "context_source", "vector_store_loaded"}

\* C19: set_folder with a path that is not a directory, or with a directory
\* without supported files, replies with the invalid-path or no-valid-files
\* message, does not call load_and_index_documents, and leaves folder_path,
\* valid_files_in_folder, context_source and vector_store_loaded as they were.
C19_UnusableFolderFrame ==
    NoUsableFolder =>
        /\ last.replies = IF ~isdir(last.folder_path)
                          THEN Say("Responses.invalid_folder_path")
                          ELSE Say("Responses.no_valid_files")
        /\ ~last.load.called
        /\ \A k \in FolderKeys :
               /\ (k \in DOMAIN user_data[last.user]) = (k \in DOMAIN last.before)
               /\ k \in DOMAIN last.before => user_data[last.user][k] = last.before[k]

\* an indexed session is given a directory without supported files
C19_Witness ==
    /\ NoUsableFolder
    /\ last.folder_path = "kbC"
    /\ "vector_store_loaded" \in DOMAIN last.before

\* the handlers decorated with authorized_only
WrappedHandlers ==
    {"status", "knowledge_base", "set_knowledge_base", "set_folder", "clear_context",
     "handle_message", "send_file", "language", "set_language", "grant_access"}

\* the users table holds no active row with access for the user
NoAccessRow(db, u) == ~(u \in DOMAIN db /\ db[u].is_active /\ db[u].access)

\* C20: for every handler wrapped in authorized_only, when check_user_access is
\* false for the sender, the handler body does not run, the sender gets the
\* access-denied message, and the knowledge-base state of the sessions (session
\* keys, active indexes, persisted indexes) stays as it was.
C20_DeniedRunsNothing ==
    [][\A u \in Users :
           (/\ last'.op \in WrappedHandlers
            /\ last'.user = u
            /\ last'.db_fault # "save_user_info"
            /\ last'.db_fault = "check_user_access" \/ NoAccessRow(users_db', u))
           => /\ ~last'.body_ran
              /\ last'.replies = Say("Responses.access_denied")
              /\ UNCHANGED <<user_data, vector_store, disk>>]_vars

\* u2, who has no access, presses a file button while u1 has an active index
C20_Witness ==
    /\ last.op = "send_file" /\ last.user = "u2" /\ last.db_fault = "none"
    /\ ~last.body_ran
    /\ vector_store["u1"].t = "index"

\* C2: when handle_message runs for an authorized user with an indexed session,
\* the user is sent a message with the answer text generate_response produced,
\* with one button per source file when it returned source files.
C2_ReplyCarriesAnswer ==
    Answered =>
        /\ Len(last.replies) = 1
        /\ last.replies[1].text = last.generated.v[1].v
        /\ Truthy(last.generated.v[2]) =>
               {last.replies[1].buttons[i].label :
                    i \in 1..Len(last.replies[1].buttons)} = last.generated.v[2].v

(***************************************************************************)
(* helpers.get_language_code: a dictionary lookup by the language name.    *)
(* A name is the sequence of its characters; the inputs are the supported  *)
(* names in every mix of upper and lower case, and a name that is not      *)
(* supported.                                                              *)
(***************************************************************************)
English == <<"E", "n", "g", "l", "i", "s", "h">>
Russian == <<"R", "u", "s", "s", "i", "a", "n">>
Indonesian == <<"I", "n", "d", "o", "n", "e", "s", "i", "a", "n">>

LowerChar(c) ==
    CASE c = "E" -> "e" [] c = "R" -> "r" [] c = "I" -> "i" [] c = "N" -> "n"
      [] c = "G" -> "g" [] c = "L" -> "l" [] c = "S" -> "s" [] c = "H" -> "h"
      [] c = "U" -> "u" [] c = "A" -> "a" [] c = "D" -> "d" [] c = "O" -> "o"
      [] OTHER -> c

UpperChar(c) ==
    CASE c = "e" -> "E" [] c = "r" -> "R" [] c = "i" -> "I" [] c = "n" -> "N"
      [] c = "g" -> "G" [] c = "l" -> "L" [] c = "s" -> "S" [] c = "h" -> "H"
      [] c = "u" -> "U" [] c = "a" -> "A" [] c = "d" -> "D" [] c = "o" -> "O"
      [] OTHER -> c

\* str.lower()
LowerName(name) == [i \in 1..Len(name) |-> LowerChar(name[i])]

CaseVariants(name) ==
    {[i \in 1..Len(name) |-> IF i \in S THEN UpperChar(name[i]) ELSE LowerChar(name[i])] :
        S \in SUBSET (1..Len(name))}

LanguageNames ==
    CaseVariants(English) \cup CaseVariants(Russian) \cup CaseVariants(Indonesian)
        \cup {<<"u", "n", "k", "n", "o", "w", "n">>, <<>>}

\* the dictionary of get_language_code
mapping == [name \in {English, Russian, Indonesian} |->
               CASE name = English -> "en" [] name = Russian -> "ru" [] OTHER -> "id"]

\* mapping.get(language_name, "en")
get_language_code(language_name) ==
    IF language_name \in DOMAIN mapping THEN mapping[language_name] ELSE "en"

LangInit ==
    /\ folder_files = [f \in Folders |-> {}]
    /\ disk = [f \in Folders |-> Absent]
    /\ vector_store = [u \in Users |-> None]
    /\ user_data = [u \in Users |-> EmptyDict]
    /\ users_db = EmptyDict
    /\ last \in {[op |-> "language_name", language_name |-> name] : name \in LanguageNames}

GetLanguageCode ==
    /\ last.op = "language_name"
    /\ last' = [op |-> "get_language_code", language_name |-> last.language_name,
                value |-> get_language_code(last.language_name)]
    /\ UNCHANGED <<folder_files, disk, vector_store, user_data, users_db>>

LangNext == GetLanguageCode

LangSpec == LangInit /\ [][LangNext]_vars

\* C21: get_language_code is case-insensitive: every case variant of a supported
\* language name maps to the code of that language, any other name to "en".
C21_CaseInsensitive ==
    last.op = "get_language_code" =>
        last.value = CASE LowerName(last.language_name) = LowerName(English) -> "en"
                       [] LowerName(last.language_name) = LowerName(Russian) -> "ru"
                       [] LowerName(last.language_name) = LowerName(Indonesian) -> "id"
                       [] OTHER -> "en"

(***************************************************************************)
(* The folder changes between calls: files are added to a knowledge-base   *)
(* folder or removed from it while its vector_store directory stays.       *)
(***************************************************************************)
EditedFolders == {"kbA", "kbB"}
EditedContents ==
    {{}, {"n.txt"}, {"a.pdf"}, {"d.pdf", "n.txt"}, {"a.pdf", "d.pdf", "b.docx", "n.txt"}}

EditFolder(folder_path, files) ==
    /\ Idle
    /\ folder_files[folder_path] # files
    /\ folder_files' = [folder_files EXCEPT ![folder_path] = files]
    /\ last' = [op |-> "edit_folder", folder_path |-> folder_path]
    /\ UNCHANGED <<disk, vector_store, user_data, users_db>>

ReuseNext ==
    \/ Idle /\ \E u \in CoreUsers, p \in EditedFolders,
                  faults \in {{}} \cup {{x} : x \in IndexFaults} :
                  LoadAndIndex(u, p, faults, {})
    \/ Idle /\ \E p \in EditedFolders, files \in EditedContents : EditFolder(p, files)
    \/ Idle /\ \E u \in CoreUsers : ClearVectorStore(u)
    \/ ReturnToCaller

ReuseSpec == Init /\ [][ReuseNext]_vars

\* the call found a persisted index that exists and loads
LoadableIndex ==
    /\ last.op = "load_and_index_documents"
    /\ last.dir_before.t = "index"
    /\ last.faults \cap {"stat", "load"} = {}

\* C22: once a loadable persisted index exists for a folder, a later
\* load_and_index_documents on the folder adopts it and returns success without
\* reading the folder's documents, whatever the folder holds by then.
C22_PersistedIndexReused ==
    LoadableIndex =>
        /\ last.value = Tuple(<<Bool(TRUE), LoadedMsg>>)
        /\ vector_store[last.user] = last.dir_before
        /\ disk[last.folder_path] = last.dir_before
        /\ ~last.loader_invoked
        /\ ~last.embedded

\* the index is adopted although the folder no longer holds a supported file
C22_Witness ==
    /\ LoadableIndex
    /\ NoSupportedFile(last.folder_path)
    /\ vector_store[last.user].files # {}

(***************************************************************************)
(* The messages table and the chat history of handle_message.  A row is a  *)
(* message with its conversation id; the timestamp of a row is its         *)
(* position in the table.  handle_message opens a new conversation for     *)
(* every text message, saves the message, reads the history, calls         *)
(* generate_response and saves the reply.  The rows are kept with the      *)
(* database entry of the user who wrote the messages.                      *)
(***************************************************************************)
MessageRow(conversation_id, sender_type, message_text) ==
    [conversation_id |-> conversation_id, sender_type |-> sender_type,
     message_text |-> message_text]

\* DatabaseService.save_message
save_message(messages, conversation_id, sender_type, message_text) ==
    Append(messages, MessageRow(conversation_id, sender_type, message_text))

\* MAX(timestamp) of the user's messages of a conversation
last_datetime(messages, conversation_id) ==
    CHOOSE i \in 1..Len(messages) :
        /\ messages[i].conversation_id = conversation_id
        /\ messages[i].sender_type = "user"
        /\ \A j \in 1..Len(messages) :
               (messages[j].conversation_id = conversation_id
                    /\ messages[j].sender_type = "user") => j <= i

RECURSIVE OrderByLastDatetimeDesc(_, _, _)
\* ORDER BY last_datetime DESC LIMIT dialog_numbers
OrderByLastDatetimeDesc(messages, conversations, dialog_numbers) ==
    IF conversations = {} \/ dialog_numbers = 0
    THEN <<>>
    ELSE LET newest == CHOOSE c \in conversations :
                           \A d \in conversations :
                               last_datetime(messages, d) <= last_datetime(messages, c)
         IN  <<newest>> \o OrderByLastDatetimeDesc(messages, conversations \ {newest},
                                                   dialog_numbers - 1)

\* the rows of one conversation, ORDER BY datetime ASC, as history texts
ConversationTexts(messages, conversation_id) ==
    LET rows == SelectSeq(messages, LAMBDA m : m.conversation_id = conversation_id)
    IN  [i \in 1..Len(rows) |->
            [prefix |-> IF rows[i].sender_type = "user"
                        THEN "HumanMessage" ELSE "AIMessage",
             text |-> rows[i].message_text]]

RECURSIVE ConcatTexts(_, _)
ConcatTexts(messages, conversation_ids) ==
    IF conversation_ids = <<>>
    THEN <<>>
    ELSE ConversationTexts(messages, Head(conversation_ids))
             \o ConcatTexts(messages, Tail(conversation_ids))

\* the conversations of the table that hold a message of the user
UserConversations(messages) ==
    {messages[i].conversation_id : i \in {j \in 1..Len(messages) :
                                            messages[j].sender_type = "user"}}

\* DatabaseService.get_chat_history
get_chat_history(dialog_numbers, messages) ==
    LET conversation_ids == OrderByLastDatetimeDesc(messages, UserConversations(messages),
                                                    dialog_numbers)
    IN  ConcatTexts(messages, conversation_ids)

\* helpers.messages_to_langchain_messages
messages_to_langchain_messages(chat_history_texts) ==
    [i \in 1..Len(chat_history_texts) |->
        [type |-> IF chat_history_texts[i].prefix = "HumanMessage" THEN "human" ELSE "ai",
         content |-> chat_history_texts[i].text]]

\* what generate_response answers in a turn; "raise" when the call raises
TurnReplies == {"a", "b", "raise"}

HistoryInit ==
    /\ folder_files = FolderContents
    /\ disk = [f \in Folders |-> Absent]
    /\ vector_store = [u \in Users |-> None]
    /\ user_data = [u \in Users |-> EmptyDict]
    /\ users_db = [u \in {"u1"} |->
                      [access |-> TRUE, is_active |-> TRUE, current_language |-> "English",
                       messages |-> <<>>]]
    /\ last = [op |-> "idle", prev |-> NoPrev]

\* handle_message lines 669-741: the turn of one text message
MessageTurn(u, reply) ==
    LET before == users_db[u].messages
        conversation_id == Cardinality(UserConversations(before)) + 1
        user_message == "q" \o ToString(conversation_id)
        saved == save_message(before, conversation_id, "user", user_message)
        chat_history ==
            messages_to_langchain_messages(get_chat_history(CHAT_HISTORY_LEVEL, saved))
        bot_message == reply \o ToString(conversation_id)
    IN  /\ Idle
        /\ conversation_id <= MaxTurns
        /\ last' = [op |-> "handle_message", user |-> u, user_message |-> user_message,
                    before |-> before, chat_history |-> chat_history,
                    invoke_chat_history |-> chat_history, reply |-> reply]
        /\ users_db' = [users_db EXCEPT ![u].messages =
                            IF reply = "raise"
                            THEN saved
                            ELSE save_message(saved, conversation_id, "bot", bot_message)]
        /\ UNCHANGED <<folder_files, disk, vector_store, user_data>>

HistoryNext ==
    \/ Idle /\ \E reply \in TurnReplies : MessageTurn("u1", reply)
    \/ ReturnToCaller

HistorySpec == HistoryInit /\ [][HistoryNext]_vars

\* the rows of the table in the order they were submitted, as chat messages
SubmissionOrder(messages) ==
    [i \in 1..Len(messages) |->
        [type |-> IF messages[i].sender_type = "user" THEN "human" ELSE "ai",
         content |-> messages[i].message_text]]

\* C23: the chat history that handle_message supplies lists the prior turns in
\* submission order, oldest first, each human message followed by its reply
\* (the message being answered left aside), and generate_response passes the
\* history to the model as it got it.
C23_HistoryOldestFirst ==
    (last.op = "handle_message" /\ "before" \in DOMAIN last) =>
        /\ SelectSeq(last.chat_history,
                     LAMBDA m : m # [type |-> "human", content |-> last.user_message])
               = SubmissionOrder(last.before)
        /\ last.invoke_chat_history = last.chat_history

\* the session of u is marked as indexed
MarkedIndexed(d) == "vector_store_loaded" \in DOMAIN d

\* C24: after clear_context the session has no active index and neither
\* vector_store_loaded nor folder_path; the session is marked as indexed again
\* only by a set_knowledge_base whose indexing succeeds; and while it is not
\* marked, a text message that passes the access gate is answered with the
\* documents-not-indexed message without a call of generate_response.
C24_ClearedUntilSelected ==
    [][\A u \in Users :
        /\ (last'.op = "clear_context" /\ last'.user = u /\ last'.body_ran)
               => /\ vector_store'[u] = None
                  /\ "vector_store_loaded" \notin DOMAIN user_data'[u]
                  /\ "folder_path" \notin DOMAIN user_data'[u]
        /\ (~MarkedIndexed(user_data[u]) /\ MarkedIndexed(user_data'[u]))
               => /\ last'.op = "set_knowledge_base" /\ last'.user = u
                  /\ last'.load.called /\ IsOk(last'.load.value)
        /\ (/\ last'.op = "handle_message" /\ last'.user = u
            /\ last'.db_fault = "none" /\ ~NoAccessRow(users_db', u)
            /\ ~MarkedIndexed(user_data[u]))
               => /\ last'.replies = Say("ContextErrors.documents_not_indexed")
                  /\ "generated" \notin DOMAIN last']_vars

\* a text message after clear_context: a knowledge base was indexed before, the
\* session holds no folder any more, and the message is turned away
C24_Witness ==
    /\ last.op = "handle_message" /\ last.user = "u1" /\ last.db_fault = "none"
    /\ last.replies = Say("ContextErrors.documents_not_indexed")
    /\ \E f \in Folders : disk[f].t = "index"
    /\ "folder_path" \notin DOMAIN user_data["u1"]
    /\ vector_store["u1"] = None

\* C25: in every session state, when vector_store_loaded is true the active
\* index of the service is the index of the folder named by folder_path.
C25_IndexOfCurrentFolder ==
    \A u \in Users :
        Truthy(Get(user_data[u], "vector_store_loaded", Bool(FALSE)))
            => /\ vector_store[u].t = "index"
               /\ vector_store[u].folder = Get(user_data[u], "folder_path", "")

\* C26: whenever load_and_index_documents returns (True, _), the service holds
\* an active index of that folder, loaded from the folder's vector_store
\* directory or built and persisted there.
C26_SuccessMeansIndex ==
    (IsLoad /\ IsOk(last.value)) =>
        /\ vector_store[last.user].t = "index"
        /\ vector_store[last.user].folder = last.folder_path
        /\ disk[last.folder_path] = vector_store[last.user]

\* C27: whenever load_and_index_documents returns (False, _), the active index
\* of the service is the one it held before the call.
C27_FailureKeepsIndex ==
    (IsLoad /\ last.value.t = "tuple" /\ last.value.v[1] = Bool(FALSE)) =>
        vector_store[last.user] = last.vs_before

ButtonNext ==
    \/ Idle /\ \E selection \in {"KB A", "KB B"} :
                  SetKnowledgeBase("u1", selection, FALSE, "none")
    \/ Idle /\ \E gen \in MockedResponses : HandleMessageMocked("u1", "none", gen)
    \/ Idle /\ \E file_id \in {FileId(0), FileId(1), "?"}, read_fault \in BOOLEAN :
                  SendFile("u1", file_id, read_fault, "none")
    \/ Idle /\ ClearContext("u1", "none")
    \/ ReturnToCaller

ButtonSpec == BotInit /\ [][ButtonNext]_vars

\* the callback ids of the file buttons sent to the user, with their files
FileIdMap(d) == Get(d, "file_id_map", EmptyDict)

ListedPageSets == (SUBSET (0..MaxPages) \ {{}}) \cup {{NoPage}}

\* the filenames listed in the reference block of a response: the text of a
\* line before ", pages: "
ListedFiles(response) ==
    LET block == ReferenceBlock(response)
    IN {name \in FileNames :
            \E i \in 1..Len(block), pages \in ListedPageSets :
                block[i] = name \o ", pages: " \o JoinPages(SortedSeq(pages))}

\* C29: source_files returned by generate_response is never an empty
\* collection; it is None or holds at least one filename, it is not None
\* exactly when the returned answer carries a reference block, and it then
\* equals the set of filenames listed in that block.
C29_SourceFilesMatchBlock ==
    IsGen =>
        LET response == last.value.v[1].v
            source_files == last.value.v[2]
        IN  /\ source_files = None
               \/ (source_files.t = "set" /\ source_files.v # {}
                                          /\ source_files.v \subseteq FileNames)
            /\ source_files # None <=> HasReferenceBlock(response)
            /\ source_files # None =>
                   /\ source_files.v = ListedFiles(response)
                   /\ Len(ReferenceBlock(response)) = Cardinality(source_files.v)

\* an answer whose block lists two files, returned with those two files
C29_Witness ==
    /\ IsGen
    /\ last.value.t = "tuple"
    /\ Len(last.value.v) = 3
    /\ last.value.v[2] # None
    /\ Cardinality(last.value.v[2].v) = 2
    /\ Len(ReferenceBlock(last.value.v[1].v)) = 2

(***************************************************************************)
(* The commands a user can send without passing authorized_only            *)
(* (AccessSpec).                                                           *)
(***************************************************************************)
\* BotHandlers.start, under initialize_services: saves the user and greets
Start(u, db_fault) ==
    LET said(ran, replies) ==
            [op |-> "start", user |-> u, db_fault |-> db_fault, body_ran |-> ran,
             replies |-> replies]
    IN  /\ Idle
        /\ UNCHANGED <<folder_files, disk, vector_store, user_data>>
        /\ IF db_fault = "initialize_services"
           THEN /\ last' = said(FALSE, Say("Responses.generic_error"))
                /\ UNCHANGED users_db
           ELSE IF db_fault = "save_user_info"
           THEN /\ last' = said(TRUE, Say("Responses.generic_error"))
                /\ UNCHANGED users_db
           ELSE /\ last' = said(TRUE, Say("Greetings.first_time"))
                /\ users_db' = save_user_info(users_db, u)

\* BotHandlers.request_access: saves the user, notifies the admin and tells
\* the user that access was requested
RequestAccess(u, db_fault) ==
    LET said(replies, notified) ==
            [op |-> "request_access", user |-> u, db_fault |-> db_fault,
             body_ran |-> TRUE, replies |-> replies, notified |-> notified]
    IN  /\ Idle
        /\ UNCHANGED <<folder_files, disk, vector_store, user_data>>
        /\ IF db_fault = "save_user_info"
           THEN /\ last' = said(Say("Responses.generic_error"), {})
                /\ UNCHANGED users_db
           ELSE /\ last' = said(Say("Responses.access_requested"), {Admin})
                /\ users_db' = save_user_info(users_db, u)

AccessNext ==
    \/ Idle /\ \E u \in Users, db_fault \in {"none", "initialize_services", "save_user_info"} :
                  Start(u, db_fault)
    \/ Idle /\ \E u \in Users, db_fault \in {"none", "save_user_info"} :
                  RequestAccess(u, db_fault)
    \/ Idle /\ \E u \in Users, db_fault \in DbFaults : KnowledgeBase(u, db_fault)
    \/ Idle /\ \E u \in Users, db_fault \in DbFaults : Language(u, db_fault)
    \/ Idle /\ \E u \in Users, data \in Languages \cup {"?"},
                  db_fault \in DbFaults \cup {"update_current_language"} :
                  SetLanguage(u, data, db_fault)
    \/ Idle /\ \E u \in Users, db_fault \in DbFaults : ClearContext(u, db_fault)
    \/ Idle /\ \E u \in Users, target \in Users \cup {""},
                  db_fault \in DbFaults \cup {"grant_access"} :
                  GrantAccess(u, target, db_fault)
    \/ ReturnToCaller

AccessSpec == BotInit /\ [][AccessNext]_vars

\* C30: a user who was never granted access through the admin's grant_access
\* (the users table holds no row with access for them) is denied by every
\* handler wrapped in authorized_only, and none of the user's own actions
\* (start, request_access, messages, commands) gives them access.
C30_NoAccessWithoutGrant ==
    [][\A u \in Users :
           (NoAccessRow(users_db, u) /\ last'.user = u)
           => /\ last'.op \in WrappedHandlers => ~last'.body_ran
              /\ NoAccessRow(users_db', u)]_vars

====
